---- MODULE Spec2Model ----
(***************************************************************************)
(* Archon MCP server: the JSON-RPC-over-HTTP bridge (POST /mcp, GET /mcp)  *)
(* over the FastMCP tool registry, the lifespan context manager, the       *)
(* crawler manager, the learning formatter, the learning capture tools     *)
(* and the storage of learning files.                                      *)
(*                                                                         *)
(* Python values are records [t, s, keys]: t is the Python type name, s    *)
(* the value's text (str(v)), keys the key set of a dict.                  *)
(***************************************************************************)
EXTENDS Integers, Sequences, FiniteSets, TLC

VARIABLES
    server,      \* import of mcp_server.py: "importing" | "serving" | "import_failed"
    tools,       \* mcp._tool_manager._tools: the registry's keys, in insertion order
    request,     \* the body of the POST /mcp request handled (NoRequest before)
    response,    \* what mcp_http_endpoint produced for it (NoResponse before)
    invoked,     \* the handler calls made for the request, in order
    info,        \* the last GET /mcp answer (NoInfo before)
    initialization_lock,      \* _initialization_lock: the connection holding it, 0 if free
    initialization_complete,  \* _initialization_complete
    shared_context,           \* _shared_context (NoContext: None)
    pc,                       \* each connection's place in lifespan
    context,                  \* each connection's local `context`
    yielded,                  \* the context lifespan yielded to each connection
    contexts_created,         \* ArchonContext objects constructed so far
    startup_checks,           \* startup calls of perform_health_checks so far
    cm_instance,      \* CrawlerManager._instance: the object's id, 0 for None
    cm_objects,       \* CrawlerManager objects super().__new__ has made
    cm,               \* the manager's _crawler, _initialized and _using_fallback
    crawlers_created, \* AsyncWebCrawler and FallbackCrawler objects constructed so far
    enter_calls,      \* per crawler object, the calls of its __aenter__
    exit_calls,       \* per crawler object, the calls of its __aexit__
    cm_calls,         \* calls made on the manager so far
    cm_call,          \* the last call: what it was and how it ended
    formatter,        \* the last call of a learning_formatter function and its result
    capture,          \* the last call of a learning capture tool: what it did, in order
    health,           \* an ArchonContext's health_status and the last check made on it
    storage           \* the clock, the files of the knowledge directory, the saves made

httpVars == <<server, tools, request, response, invoked, info>>

lifespanVars ==
    <<initialization_lock, initialization_complete, shared_context, pc, context,
      yielded, contexts_created, startup_checks>>

crawlerVars ==
    <<cm_instance, cm_objects, cm, crawlers_created, enter_calls, exit_calls,
      cm_calls, cm_call>>

formatterVars == <<formatter>>

captureVars == <<capture>>

healthVars == <<health>>

storageVars == <<storage>>

notHttpVars ==
    <<lifespanVars, crawlerVars, formatterVars, captureVars, healthVars,
      storageVars>>

notLifespanVars ==
    <<httpVars, crawlerVars, formatterVars, captureVars, healthVars,
      storageVars>>

notCrawlerVars ==
    <<httpVars, lifespanVars, formatterVars, captureVars, healthVars,
      storageVars>>

notFormatterVars ==
    <<httpVars, lifespanVars, crawlerVars, captureVars, healthVars,
      storageVars>>

notCaptureVars ==
    <<httpVars, lifespanVars, crawlerVars, formatterVars, healthVars,
      storageVars>>

notHealthVars ==
    <<httpVars, lifespanVars, crawlerVars, formatterVars, captureVars,
      storageVars>>

notStorageVars ==
    <<httpVars, lifespanVars, crawlerVars, formatterVars, captureVars,
      healthVars>>

vars ==
    <<server, tools, request, response, invoked, info,
      initialization_lock, initialization_complete, shared_context, pc, context,
      yielded, contexts_created, startup_checks,
      cm_instance, cm_objects, cm, crawlers_created, enter_calls, exit_calls,
      cm_calls, cm_call, formatter, capture, health, storage>>

----------------------------------------------------------------------------
(* Python values *)

PV(t, s, keys) == [t |-> t, s |-> s, keys |-> keys]

None == PV("NoneType", "None", {})

\* A member that the JSON object does not have (dict.get then answers a default).
Absent == PV("absent", "", {})

EmptyDict == PV("dict", "{}", {})

Str(text) == PV("str", text, {})

\* bool(v): Python truthiness, as `if not method` and `if params` use it.
Truthy(v) ==
    CASE v.t = "NoneType" -> FALSE
      [] v.t = "bool" -> v.s = "True"
      [] v.t = "int" -> v.s # "0"
      [] v.t = "str" -> v.s # ""
      [] v.t = "list" -> v.s # "[]"
      [] v.t = "dict" -> v.keys # {}
      [] OTHER -> TRUE

\* hash(v) is defined: a list or a dict as a dict key raises TypeError.
Hashable(v) == v.t \notin {"list", "dict", "set"}

\* json.dumps(v) is defined (what JSONResponse renders); a set is not serializable.
Serializable(v) == v.t # "set"

\* json.loads: the texts it decodes, and the value of each.
JsonTable ==
    ("null" :> None)
    @@ ("7" :> PV("int", "7", {}))
    @@ ("\"ok\"" :> Str("ok"))
    @@ ("[1]" :> PV("list", "[1]", {}))
    @@ ("{}" :> EmptyDict)
    @@ ("{\"success\": true}" :> PV("dict", "{'success': True}", {"success"}))

\* Texts json.loads raises JSONDecodeError for.
MalformedTexts == {"", "not json", "{'success': True}"}

json_loads_ok(text) == text \in DOMAIN JsonTable

json_loads(text) == JsonTable[text]

----------------------------------------------------------------------------
(* The tool registry *)

\* @mcp.tool() on health_check and session_info runs when the file is imported.
BaseTools == <<"health_check", "session_info">>

\* The tools register_rag_tools and register_project_tools add (modules outside
\* this source tree; one representative tool each).
RagTools == <<"perform_rag_query">>

ProjectTools == <<"manage_project">>

Range(seq) == {seq[i] : i \in 1..Len(seq)}

\* The handler's parameters after ctx: those without a default, those with one.
Signature(tool) ==
    CASE tool = "perform_rag_query" ->
            [required |-> {"query"}, optional |-> {"source", "match_count"}]
      [] tool = "manage_project" ->
            [required |-> {"action"}, optional |-> {"project_id", "title"}]
      [] OTHER -> [required |-> {}, optional |-> {}]

\* Outcome of importing and running one module's register function.
ModuleOutcomes == {"ok", "ImportError", "Exception"}

\* register_modules: the registry afterwards, and whether it raised RuntimeError.
modules_registered(rag, projects_enabled, project) ==
    (IF rag = "ok" THEN 1 ELSE 0)
    + (IF projects_enabled /\ project = "ok" THEN 1 ELSE 0)

registry_after_modules(reg, rag, projects_enabled, project) ==
    reg \o (IF rag = "ok" THEN RagTools ELSE <<>>)
        \o (IF projects_enabled /\ project = "ok" THEN ProjectTools ELSE <<>>)

----------------------------------------------------------------------------
(* Requests *)

NoMembers == [jsonrpc |-> Absent, method |-> Absent, id |-> Absent, params |-> Absent]

\* A request body: bytes that are not UTF-8, a text, or a JSON object given by
\* its jsonrpc, method, id and params members.
BytesBody == [kind |-> "bytes", text |-> "\\xff", obj |-> NoMembers]

TextBody(text) == [kind |-> "text", text |-> text, obj |-> NoMembers]

ObjectBody(m) == [kind |-> "object", text |-> "", obj |-> m]

NoRequest == [kind |-> "none", text |-> "", obj |-> NoMembers]

JsonrpcValues == {Absent, Str("2.0"), Str("1.0"), PV("float", "2.0", {})}

MethodValues ==
    {Absent, None, Str(""), PV("int", "5", {}), PV("list", "['health_check']", {}),
     Str("health_check"), Str("capture_learning"), Str("perform_rag_query"),
     Str("no_such_tool")}

IdValues == {Absent, None, PV("int", "1", {}), Str("req-1")}

ParamKeySets ==
    {{"query"}, {"query", "source"}, {"source"}, {"query", "bogus"},
     {"ctx", "query"}, {"action"}}

ParamsValues ==
    {Absent, None, EmptyDict, PV("list", "[]", {}), PV("int", "0", {}),
     PV("list", "[1]", {}), Str("abc")}
    \cup {PV("dict", "", ks) : ks \in ParamKeySets}

ObjectBodies ==
    {ObjectBody([jsonrpc |-> j, method |-> m, id |-> i, params |-> p]) :
        j \in JsonrpcValues, m \in MethodValues, i \in IdValues, p \in ParamsValues}

Bodies ==
    {BytesBody} \cup {TextBody(t) : t \in MalformedTexts \cup DOMAIN JsonTable}
    \cup ObjectBodies

\* An exception: its type's name and str(e).
Exc(type, msg) == [type |-> type, msg |-> msg]

NoExc == Exc("", "")

\* request.json(): json.loads of the body's bytes. The exception it raises, if any.
request_json_error(req) ==
    IF req.kind = "bytes"
    THEN Exc("UnicodeDecodeError", "'utf-8' codec can't decode byte 0xff")
    ELSE IF req.kind = "text" /\ ~json_loads_ok(req.text)
    THEN Exc("JSONDecodeError", "Expecting value")
    ELSE NoExc

\* request.json(): the parsed body, its top-level value and the four members read.
request_json(req) ==
    IF req.kind = "text"
    THEN [top |-> json_loads(req.text)] @@ NoMembers
    ELSE [top |-> PV("dict", "", {k \in DOMAIN req.obj : req.obj[k] # Absent})]
         @@ req.obj

\* body.get(key, default) on a dict body.
body_get(body, key, default) == IF body[key] = Absent THEN default ELSE body[key]

\* What a handler does once called: returns a value or raises.
Return(v) == [kind |-> "return", value |-> v, exc |-> NoExc]

Raise(e) == [kind |-> "raise", value |-> None, exc |-> e]

HandlerOutcomes ==
    {Return(Str(t)) : t \in {"{\"success\": true}", "null", "[1]", "not json", ""}}
    \cup {Return(PV("dict", "{'success': True}", {"success"})), Return(None),
          Return(PV("set", "{1}", {}))}
    \cup {Raise(Exc("TypeError", "unsupported operand type(s)")),
          Raise(Exc("ValueError", "bad value")),
          Raise(Exc("JSONDecodeError", "Expecting value")),
          Raise(Exc("HTTPException", "502"))}

----------------------------------------------------------------------------
(* POST /mcp: mcp_http_endpoint *)

NoData ==
    [keys |-> {}, available_methods |-> <<>>, method |-> Absent, params |-> Absent,
     error_type |-> ""]

\* JSONResponse({"jsonrpc": "2.0", "id": id, "result": result})
ResultResponse(id, result) ==
    [kind |-> "json", exc |-> "", jsonrpc |-> "2.0", members |-> {"jsonrpc", "id", "result"},
     id |-> id, result |-> result, code |-> 0, message |-> <<>>, data |-> NoData]

\* JSONResponse({"jsonrpc": "2.0", "id": id, "error": {code, message[, data]}})
ErrorResponse(id, code, message, data) ==
    [kind |-> "json", exc |-> "", jsonrpc |-> "2.0", members |-> {"jsonrpc", "id", "error"},
     id |-> id, result |-> Absent, code |-> code, message |-> message, data |-> data]

\* An exception that leaves mcp_http_endpoint: no JSON-RPC envelope is returned.
Escaped(type) ==
    [kind |-> "exception", exc |-> type, jsonrpc |-> "", members |-> {},
     id |-> Absent, result |-> Absent, code |-> 0, message |-> <<>>, data |-> NoData]

NoResponse ==
    [kind |-> "none", exc |-> "", jsonrpc |-> "", members |-> {},
     id |-> Absent, result |-> Absent, code |-> 0, message |-> <<>>, data |-> NoData]

\* `body.get("id") if 'body' in locals() else None` in the except clauses: the
\* value, or the AttributeError of calling .get on a body that is no dict.
handler_id_raises(bound, body) == bound /\ body.top.t # "dict"

handler_id(bound, body) == IF bound THEN body_get(body, "id", None) ELSE None

\* except HTTPException as he
on_HTTPException(bound, body, detail) ==
    IF handler_id_raises(bound, body)
    THEN Escaped("AttributeError")
    ELSE ErrorResponse(handler_id(bound, body), -32600, <<detail>>, NoData)

\* except Exception as e (the outermost clause)
on_Exception(bound, body, e) ==
    IF handler_id_raises(bound, body)
    THEN Escaped("AttributeError")
    ELSE ErrorResponse(handler_id(bound, body), -32603, <<"Internal error: ", e.msg>>, NoData)

\* except json.JSONDecodeError
on_JSONDecodeError ==
    ErrorResponse(None, -32700, <<"Parse error: Invalid JSON">>, NoData)

\* The validation of the JSON-RPC structure: the HTTPException detail, "" if none.
EnvelopeErrorSwapped(body) ==
    IF body.top.t # "dict" THEN "Request must be JSON object"
    ELSE IF ~Truthy(body_get(body, "method", None)) THEN "Missing 'method' field"
    ELSE IF body_get(body, "jsonrpc", None) # Str("2.0") THEN "Must be JSON-RPC 2.0"
    ELSE ""

EnvelopeError(body) ==
    IF body.top.t # "dict" THEN "Request must be JSON object"
    ELSE IF body_get(body, "jsonrpc", None) # Str("2.0") THEN "Must be JSON-RPC 2.0"
    ELSE IF ~Truthy(body_get(body, "method", None)) THEN "Missing 'method' field"
    ELSE ""

\* `method not in mcp._tool_manager._tools`, for a hashable method.
ToolRegisteredAny(reg, method) == method.t = "str"

ToolRegistered(reg, method) == method.t = "str" /\ method.s \in Range(reg)

\* list(mcp._tool_manager._tools.keys())
AvailableMethodsBase(reg) == BaseTools

AvailableMethods(reg) == reg

\* Whether calling tool_handler.fn(mock_ctx, **params) / fn(mock_ctx) binds the
\* handler's parameters (a TypeError is raised before the handler runs otherwise).
Binds(tool, params) ==
    LET sig == Signature(tool) IN
    IF Truthy(params)
    THEN /\ params.t = "dict"
         /\ "ctx" \notin params.keys
         /\ sig.required \subseteq params.keys
         /\ params.keys \subseteq sig.required \cup sig.optional
    ELSE sig.required = {}

\* The arguments of the call made: the named parameters, or the context only.
CallArgs(tool, params) ==
    IF Truthy(params)
    THEN [tool |-> tool, ctx_only |-> FALSE, kwargs |-> params.keys]
    ELSE [tool |-> tool, ctx_only |-> TRUE, kwargs |-> {}]

\* The handler calls one request makes once the parameters bind, each with
\* what the handler did.
InvocationsRetry(call, out) ==
    IF out.kind = "raise"
    THEN <<[call |-> call, out |-> out], [call |-> call, out |-> out]>>
    ELSE <<[call |-> call, out |-> out]>>

Invocations(call, out) == <<[call |-> call, out |-> out]>>

\* `json.loads(result) if isinstance(result, str) else result`: the exception
\* raised, and the value.
result_error(ret) ==
    IF ret.t = "str" /\ ~json_loads_ok(ret.s)
    THEN Exc("JSONDecodeError", "Expecting value")
    ELSE NoExc

result_value_raw(ret) == ret

result_value(ret) == IF ret.t = "str" THEN json_loads(ret.s) ELSE ret

\* The exception the inner try block ends with (NoExc: it returned the result
\* response): binding, the handler, json.loads, then JSONResponse's rendering.
tool_call_error(tool, params, out) ==
    IF ~Binds(tool, params) THEN Exc("TypeError", "unexpected or missing argument")
    ELSE IF out.kind = "raise" THEN out.exc
    ELSE IF result_error(out.value) # NoExc THEN result_error(out.value)
    ELSE IF ~Serializable(result_value(out.value))
    THEN Exc("TypeError", "Object of type set is not JSON serializable")
    ELSE NoExc

\* The inner try/except: execute the tool and build the response.
execute_tool(method, request_id, params, out) ==
    LET e == tool_call_error(method.s, params, out) IN
    IF e = NoExc THEN ResultResponse(request_id, result_value(out.value))
    ELSE IF e.type = "TypeError"
    THEN ErrorResponse(request_id, -32602,
            <<"Invalid params for ", method.s, ": ", e.msg>>,
            [NoData EXCEPT !.keys = {"method", "params"}, !.method = method,
                           !.params = params])
    ELSE ErrorResponse(request_id, -32000, <<"Tool execution failed: ", e.msg>>,
            [NoData EXCEPT !.keys = {"method", "error_type"}, !.method = method,
                           !.error_type = e.type])

\* The response of mcp_http_endpoint to `req` with registry `reg` when the
\* handler, if called, does `out`.
endpoint_response(reg, req, out) ==
    LET pe == request_json_error(req) IN
    IF pe.type = "JSONDecodeError" THEN on_JSONDecodeError
    ELSE IF pe # NoExc THEN on_Exception(FALSE, NoMembers, pe)
    ELSE
    LET body == request_json(req)
        detail == EnvelopeError(body)
    IN
    IF detail # "" THEN on_HTTPException(TRUE, body, detail)
    ELSE
    LET method == body_get(body, "method", None)
        request_id == body_get(body, "id", None)
        params == body_get(body, "params", EmptyDict)
    IN
    IF ~Hashable(method)
    THEN on_Exception(TRUE, body, Exc("TypeError", "unhashable type"))
    ELSE IF ~ToolRegistered(reg, method)
    THEN ErrorResponse(request_id, -32601, <<"Method not found: ", method.s>>,
            [NoData EXCEPT !.keys = {"available_methods"},
                           !.available_methods = AvailableMethods(reg)])
    ELSE execute_tool(method, request_id, params, out)

\* Whether the request reaches the call of tool_handler.fn, and binds.
reaches_handler(reg, req) ==
    /\ request_json_error(req) = NoExc
    /\ LET body == request_json(req) IN
       /\ EnvelopeError(body) = ""
       /\ Hashable(body_get(body, "method", None))
       /\ ToolRegistered(reg, body_get(body, "method", None))
       /\ Binds(body_get(body, "method", None).s, body_get(body, "params", EmptyDict))

\* The handler calls mcp_http_endpoint makes for `req`.
endpoint_calls(reg, req, out) ==
    IF reaches_handler(reg, req)
    THEN LET body == request_json(req) IN
         Invocations(CallArgs(body_get(body, "method", None).s,
                              body_get(body, "params", EmptyDict)), out)
    ELSE <<>>

----------------------------------------------------------------------------
(* The server: import-time registration, then the two /mcp routes *)

NoInfo == [name |-> "", tools |-> <<>>, status |-> ""]

InitHttp ==
    /\ server = "importing"
    /\ tools = BaseTools
    /\ request = NoRequest
    /\ response = NoResponse
    /\ invoked = <<>>
    /\ info = NoInfo

\* register_modules(), run at the end of the import; RuntimeError ends the import.
register_modules ==
    /\ server = "importing"
    /\ \E rag \in ModuleOutcomes, projects_enabled \in BOOLEAN, project \in ModuleOutcomes :
          /\ tools' = registry_after_modules(tools, rag, projects_enabled, project)
          /\ server' = IF modules_registered(rag, projects_enabled, project) = 0
                       THEN "import_failed" ELSE "serving"
    /\ UNCHANGED <<request, response, invoked, info>>
    /\ UNCHANGED notHttpVars

\* POST /mcp
mcp_http_endpoint ==
    /\ server = "serving"
    /\ response = NoResponse
    /\ \E req \in Bodies, out \in HandlerOutcomes :
          /\ request' = req
          /\ response' = endpoint_response(tools, req, out)
          /\ invoked' = endpoint_calls(tools, req, out)
    /\ UNCHANGED <<server, tools, info>>
    /\ UNCHANGED notHttpVars

\* GET /mcp
mcp_http_info ==
    /\ server = "serving"
    /\ info' = [name |-> "archon-mcp-server", tools |-> AvailableMethods(tools),
                status |-> "ready"]
    /\ UNCHANGED <<server, tools, request, response, invoked>>
    /\ UNCHANGED notHttpVars

----------------------------------------------------------------------------
(* lifespan: the per-connection context manager *)

\* Connections (SSE sessions) that enter lifespan.
MaxConnections == 3

Connections == 1..MaxConnections

\* An ArchonContext: its identity and health_status["status"].
NoContext == [id |-> 0, status |-> ""]

ArchonContext(id) == [id |-> id, status |-> "healthy"]

\* What the startup perform_health_checks leaves in health_status["status"].
HealthStatuses == {"healthy", "degraded", "unhealthy"}

InitLifespan ==
    /\ initialization_lock = 0
    /\ initialization_complete = FALSE
    /\ shared_context = NoContext
    /\ pc = [c \in Connections |-> "idle"]
    /\ context = [c \in Connections |-> NoContext]
    /\ yielded = [c \in Connections |-> NoContext]
    /\ contexts_created = 0
    /\ startup_checks = 0

\* `_initialization_complete and _shared_context`
ContextReadyNever(complete, shared) == FALSE

ContextReady(complete, shared) == complete /\ shared # NoContext

\* The quick check without the lock: reuse the shared context, or go for the lock.
lifespan_enter(c) ==
    /\ pc[c] = "idle"
    /\ IF ContextReady(initialization_complete, shared_context)
       THEN /\ yielded' = [yielded EXCEPT ![c] = shared_context]
            /\ pc' = [pc EXCEPT ![c] = "serving"]
       ELSE /\ pc' = [pc EXCEPT ![c] = "acquire"]
            /\ UNCHANGED yielded
    /\ UNCHANGED <<initialization_lock, initialization_complete, shared_context,
                   context, contexts_created, startup_checks>>
    /\ UNCHANGED notLifespanVars

\* `with _initialization_lock:` and the double check under the lock.
lifespan_acquire(c) ==
    /\ pc[c] = "acquire"
    /\ initialization_lock = 0
    /\ initialization_lock' = c
    /\ IF ContextReady(initialization_complete, shared_context)
       THEN /\ yielded' = [yielded EXCEPT ![c] = shared_context]
            /\ pc' = [pc EXCEPT ![c] = "serving"]
       ELSE /\ pc' = [pc EXCEPT ![c] = "starting"]
            /\ UNCHANGED yielded
    /\ UNCHANGED <<initialization_complete, shared_context, context,
                   contexts_created, startup_checks>>
    /\ UNCHANGED notLifespanVars

\* get_session_manager(), get_mcp_service_client(), ArchonContext(...), and the
\* call of perform_health_checks; an exception of the first two is re-raised and
\* leaves the with block.
lifespan_start(c) ==
    /\ pc[c] = "starting"
    /\ \/ /\ contexts_created' = contexts_created + 1
          /\ context' = [context EXCEPT ![c] = ArchonContext(contexts_created + 1)]
          /\ startup_checks' = startup_checks + 1
          /\ pc' = [pc EXCEPT ![c] = "health_check"]
          /\ UNCHANGED initialization_lock
       \/ /\ pc' = [pc EXCEPT ![c] = "failed"]
          /\ initialization_lock' = 0
          /\ UNCHANGED <<context, contexts_created, startup_checks>>
    /\ UNCHANGED <<initialization_complete, shared_context, yielded>>
    /\ UNCHANGED notLifespanVars

\* `await perform_health_checks(context)` returns (it catches every Exception),
\* then `_shared_context = context`; or the await is cancelled (CancelledError
\* is no Exception) and lifespan is left with nothing stored.
lifespan_store_context(c) ==
    /\ pc[c] = "health_check"
    /\ \/ \E st \in HealthStatuses :
            /\ context' = [context EXCEPT ![c].status = st]
            /\ shared_context' = [context[c] EXCEPT !.status = st]
            /\ pc' = [pc EXCEPT ![c] = "store_flag"]
            /\ UNCHANGED initialization_lock
       \/ /\ pc' = [pc EXCEPT ![c] = "failed"]
          /\ initialization_lock' = 0
          /\ UNCHANGED <<context, shared_context>>
    /\ UNCHANGED <<initialization_complete, yielded, contexts_created, startup_checks>>
    /\ UNCHANGED notLifespanVars

\* `_initialization_complete = True`, then `yield context`.
lifespan_store_flag(c) ==
    /\ pc[c] = "store_flag"
    /\ initialization_complete' = TRUE
    /\ yielded' = [yielded EXCEPT ![c] = context[c]]
    /\ pc' = [pc EXCEPT ![c] = "serving"]
    /\ UNCHANGED <<initialization_lock, shared_context, context, contexts_created,
                   startup_checks>>
    /\ UNCHANGED notLifespanVars

\* The connection ends (its body returns or raises into the yield): the
\* generator resumes, runs `finally` and leaves the with block if it is in one.
lifespan_exit(c) ==
    /\ pc[c] = "serving"
    /\ pc' = [pc EXCEPT ![c] = "closed"]
    /\ initialization_lock' = IF initialization_lock = c THEN 0 ELSE initialization_lock
    /\ UNCHANGED <<initialization_complete, shared_context, context, yielded,
                   contexts_created, startup_checks>>
    /\ UNCHANGED notLifespanVars


----------------------------------------------------------------------------
(* Properties of POST /mcp and GET /mcp *)

Responded == response.kind # "none"

\* The request body is a JSON object, and its members as body.get reads them.
IsObjectRequest ==
    \/ request.kind = "object"
    \/ request.kind = "text" /\ request.text \in {"{}", "{\"success\": true}"}

Member(key, default) ==
    IF request.kind = "object" /\ request.obj[key] # Absent
    THEN request.obj[key] ELSE default

\* A JSON-RPC 2.0 envelope naming a method by a non-empty string.
ValidEnvelope ==
    /\ IsObjectRequest
    /\ Member("jsonrpc", None) = Str("2.0")
    /\ Member("method", None).t = "str"
    /\ Member("method", None).s # ""

MethodInRegistry == Member("method", None).s \in Range(tools)

\* The handler was called and returned a value the response can carry: a
\* serializable value that is no string, or a string holding valid JSON.
ReturnedJson ==
    /\ Len(invoked) = 1
    /\ invoked[1].out.kind = "return"
    /\ LET v == invoked[1].out.value IN
       IF v.t = "str" THEN v.s \in DOMAIN JsonTable ELSE v.t \in {"NoneType", "dict"}

PassThrough ==
    LET v == invoked[1].out.value
        params == Member("params", EmptyDict)
    IN
    /\ response.kind = "json"
    /\ response.jsonrpc = "2.0"
    /\ response.id = Member("id", None)
    /\ response.members = {"jsonrpc", "id", "result"}
    /\ response.result = IF v.t = "str" THEN JsonTable[v.s] ELSE v
    /\ invoked[1].call.tool = Member("method", None).s
    /\ (params.t = "dict" /\ params.keys # {}
            => ~invoked[1].call.ctx_only /\ invoked[1].call.kwargs = params.keys)
    /\ (params \in {None, EmptyDict, PV("list", "[]", {})}
            => invoked[1].call.ctx_only /\ invoked[1].call.kwargs = {})

\* C1 as stated: for a JSON-RPC 2.0 object body whose method is registered, when
\* the handler returns normally the response is {jsonrpc, id, result: R} with no
\* error member, R the handler's return value JSON-decoded if it is a string and
\* unchanged otherwise, the handler having been called with params as named
\* arguments when non-empty and with the context only otherwise.
C1_PassThroughAnyReturn ==
    (Responded /\ ValidEnvelope /\ MethodInRegistry
        /\ Len(invoked) = 1 /\ invoked[1].out.kind = "return")
    => PassThrough

\* C1 (amended): the same, when the handler returns a JSON-serializable value
\* that is not a string, or a string that is valid JSON.
C1_PassThrough ==
    (Responded /\ ValidEnvelope /\ MethodInRegistry /\ ReturnedJson) => PassThrough

C1_Witness ==
    /\ Responded /\ ValidEnvelope /\ MethodInRegistry /\ ReturnedJson
    /\ invoked[1].out.value = Str("{\"success\": true}")
    /\ response.result.t = "dict"
    /\ invoked[1].call.kwargs = {"query", "source"}
    /\ response.id = Str("req-1")

\* C2: POST /mcp is total: for every request body and every handler outcome the
\* endpoint returns an envelope with jsonrpc "2.0", an id member and exactly one
\* of result or error; no exception escapes.
C2_Total ==
    Responded =>
        /\ response.kind = "json"
        /\ response.jsonrpc = "2.0"
        /\ "id" \in response.members
        /\ ("result" \in response.members) # ("error" \in response.members)

\* C3: a valid envelope whose method is not a key of the registry is answered
\* with error -32601, the request's id, "Method not found: <method>" and
\* data.available_methods equal to the list of the registry's keys.
C3_MethodNotFound ==
    (Responded /\ ValidEnvelope /\ ~MethodInRegistry) =>
        /\ response.kind = "json"
        /\ response.members = {"jsonrpc", "id", "error"}
        /\ response.code = -32601
        /\ response.id = Member("id", None)
        /\ response.message = <<"Method not found: ", Member("method", None).s>>
        /\ response.data.keys = {"available_methods"}
        /\ response.data.available_methods = tools

C3_Witness ==
    /\ Responded /\ ValidEnvelope /\ ~MethodInRegistry
    /\ response.code = -32601
    /\ Len(tools) > Len(BaseTools)
    /\ response.data.available_methods = tools
    /\ response.id = PV("int", "1", {})

\* C4: a JSON object body whose jsonrpc member is not "2.0", or whose method
\* member is missing or empty, is answered with error -32600, the body's id
\* echoed (null when absent) and "Must be JSON-RPC 2.0" or "Missing 'method'
\* field" respectively; the jsonrpc check takes precedence.
C4_InvalidRequest ==
    (Responded /\ IsObjectRequest) =>
        /\ Member("jsonrpc", None) # Str("2.0") =>
                /\ response.kind = "json"
                /\ response.members = {"jsonrpc", "id", "error"}
                /\ response.code = -32600
                /\ response.id = Member("id", None)
                /\ response.message = <<"Must be JSON-RPC 2.0">>
        /\ (Member("jsonrpc", None) = Str("2.0")
              /\ Member("method", None) \in {None, Str("")}) =>
                /\ response.kind = "json"
                /\ response.members = {"jsonrpc", "id", "error"}
                /\ response.code = -32600
                /\ response.id = Member("id", None)
                /\ response.message = <<"Missing 'method' field">>

C4_Witness ==
    /\ Responded /\ request.kind = "object"
    /\ request.obj.jsonrpc = Str("1.0")
    /\ request.obj.method = Absent
    /\ request.obj.id = Str("req-1")
    /\ response.code = -32600
    /\ response.message = <<"Must be JSON-RPC 2.0">>
    /\ response.id = Str("req-1")

\* C5: a body that is valid JSON but not a JSON object is answered with a
\* JSON-RPC error response with code -32600 and "Request must be JSON object".
C5_NotAnObject ==
    (Responded /\ request.kind = "text" /\ request.text \in DOMAIN JsonTable
        /\ ~IsObjectRequest) =>
        /\ response.kind = "json"
        /\ response.members = {"jsonrpc", "id", "error"}
        /\ response.code = -32600
        /\ response.message = <<"Request must be JSON object">>

\* The request body is valid JSON.
ValidJsonBody ==
    \/ request.kind = "object"
    \/ request.kind = "text" /\ request.text \in DOMAIN JsonTable

\* C6: the response is error -32700 ("Parse error: Invalid JSON") with id null
\* if and only if the request body is not valid JSON; a handler returning a
\* string that is not valid JSON is reported as -32000, never -32700.
C6_ParseError ==
    Responded =>
        /\ (~ValidJsonBody) <=>
                /\ response.kind = "json"
                /\ response.code = -32700
                /\ response.message = <<"Parse error: Invalid JSON">>
                /\ response.id = None
        /\ (Len(invoked) = 1 /\ invoked[1].out.kind = "return"
              /\ invoked[1].out.value.t = "str"
              /\ invoked[1].out.value.s \notin DOMAIN JsonTable)
            => response.code = -32000

\* The named parameters the request supplies can be bound to the parameters of
\* the handler its method names.
ParamsBind ==
    LET sig == Signature(Member("method", None).s)
        params == Member("params", EmptyDict)
    IN
    IF Truthy(params)
    THEN /\ params.t = "dict"
         /\ "ctx" \notin params.keys
         /\ sig.required \subseteq params.keys
         /\ params.keys \subseteq sig.required \cup sig.optional
    ELSE sig.required = {}

\* C7: for a registered method, error -32602 is returned if and only if the
\* supplied params cannot be bound to the handler's parameters; any exception
\* raised by the handler's own execution is reported as -32000 with
\* data.error_type naming the exception's type.
C7_ErrorClassification ==
    (Responded /\ ValidEnvelope /\ MethodInRegistry) =>
        /\ (response.code = -32602) <=> ~ParamsBind
        /\ (Len(invoked) >= 1 /\ invoked[1].out.kind = "raise") =>
                /\ response.code = -32000
                /\ response.data.error_type = invoked[1].out.exc.type

\* C8: no retries: every request invokes at most one handler, at most once,
\* whatever its outcome, and none at all when the response is -32700, -32600
\* or -32601.
C8_NoRetries ==
    Responded =>
        /\ Len(invoked) <= 1
        /\ response.code \in {-32700, -32600, -32601} => invoked = <<>>
        /\ response.kind = "exception" => invoked = <<>>

C8_Witness ==
    /\ Responded
    /\ Len(invoked) = 1
    /\ invoked[1].out.kind = "raise"
    /\ invoked[1].out.exc.type = "ValueError"
    /\ response.code = -32000

\* The registry as GET /mcp and POST /mcp show it, in every state.
C9_MirrorState ==
    /\ info # NoInfo => /\ info.tools = tools
                        /\ Range(info.tools) = Range(tools)
    /\ (Responded /\ ValidEnvelope) =>
            ((response.code # -32601) <=> MethodInRegistry)
    /\ (Responded /\ ValidEnvelope /\ info # NoInfo) =>
            ((response.code # -32601) <=> Member("method", None).s \in Range(info.tools))

\* C9: the HTTP transport mirrors the tool registry: the "tools" list of GET
\* /mcp equals the registry's keys, a method name (in a JSON-RPC 2.0 envelope) is
\* answered by POST /mcp with something other than -32601 exactly when it is in
\* that list, and neither endpoint adds, removes or changes registry entries.
C9_Mirror ==
    /\ []C9_MirrorState
    /\ [][server = "serving" => tools' = tools]_vars

C9_Witness ==
    /\ info # NoInfo
    /\ Responded /\ ValidEnvelope
    /\ Member("method", None) = Str("perform_rag_query")
    /\ "perform_rag_query" \in Range(info.tools)
    /\ response.code # -32601
    /\ "result" \in response.members

----------------------------------------------------------------------------
(* Properties of lifespan *)

C10_State ==
    /\ initialization_complete => shared_context # NoContext
    /\ \A c \in Connections :
          pc[c] = "serving" =>
              /\ initialization_complete
              /\ yielded[c] # NoContext
              /\ yielded[c] = shared_context
    /\ \A c \in Connections :
          (pc[c] = "failed" /\ \A d \in Connections : pc[d] \in {"idle", "failed"}) =>
              /\ ~initialization_complete
              /\ shared_context = NoContext
              /\ initialization_lock = 0

C10_Step ==
    /\ initialization_complete =>
          /\ initialization_complete'
          /\ shared_context' = shared_context
          /\ contexts_created' = contexts_created
          /\ startup_checks' = startup_checks
    /\ \A c \in Connections :
          (pc[c] \in {"starting", "health_check"} /\ pc'[c] = "failed") =>
              /\ ~initialization_complete'
              /\ shared_context' = NoContext
              /\ initialization_lock' = 0

\* C10: lifespan initializes the server context at most once: once
\* _initialization_complete is true no later connection runs initialization
\* again (no new ArchonContext, no further startup health check) and every
\* connection is yielded the identical _shared_context; in every reachable
\* state _initialization_complete implies _shared_context is not None; if
\* initialization raises, both stay unset (and the lock is released), so a
\* later connection initializes again.
C10_InitializeOnce == []C10_State /\ [][C10_Step]_vars

\* One connection's initialization failed after its ArchonContext was built, a
\* later one initialized again, and two connections hold the same context.
C10_Witness ==
    /\ initialization_complete
    /\ contexts_created = 2
    /\ \E a, b, c \in Connections :
          /\ pc[a] = "failed"
          /\ pc[b] = "serving" /\ pc[c] = "serving" /\ b # c
          /\ yielded[b] = shared_context /\ yielded[c] = shared_context
          /\ context[b] = NoContext
          /\ shared_context.id = 2

----------------------------------------------------------------------------
(* CrawlerManager *)

\* Crawler objects (primary or fallback) constructed in one run.
MaxCrawlers == 5

\* Calls made on the manager in one run.
MaxCalls == 5

CrawlerIds == 1..MaxCrawlers

NoCrawler == [id |-> 0, kind |-> "None"]

\* How the primary crawler's setup ends: crawl4ai missing (ImportError),
\* BrowserConfig or AsyncWebCrawler(...) raising, __aenter__ raising, or success.
PrimaryOutcomes == {"ok", "unavailable", "config_error", "enter_error"}

\* How FallbackCrawler().__aenter__() ends.
FallbackOutcomes == {"ok", "enter_error"}

\* How the crawler's __aexit__ ends.
ExitOutcomes == {"ok", "raises"}

\* A call on the manager: the operation, what the collaborators did during it
\* ("" when they were not reached), the crawler returned (0: none) and whether
\* the call raised.
Call(op, primary, fallback, exit, result, raised) ==
    [op |-> op, primary |-> primary, fallback |-> fallback, exit |-> exit,
     result |-> result, raised |-> raised]

NoCall == Call("", "", "", "", 0, FALSE)

InitCrawler ==
    /\ cm_instance = 0
    /\ cm_objects = 0
    /\ cm = [crawler |-> NoCrawler, initialized |-> FALSE, using_fallback |-> FALSE]
    /\ crawlers_created = 0
    /\ enter_calls = [i \in CrawlerIds |-> 0]
    /\ exit_calls = [i \in CrawlerIds |-> 0]
    /\ cm_calls = 0
    /\ cm_call = NoCall

\* CrawlerManager.__new__: the object count and _instance afterwards.

new_objects(instance, objects) == IF instance = 0 THEN objects + 1 ELSE objects

new_instance(instance, objects) == IF instance = 0 THEN objects + 1 ELSE instance

\* `self._initialized and self._crawler is not None`
IsInitializedNever(m) == FALSE

IsInitialized(m) == m.initialized /\ m.crawler # NoCrawler

\* The primary crawler object, if the try block got as far as constructing it.
primary_constructed(primary) == primary \in {"ok", "enter_error"}

\* The state the fallback branch (the except clause) leaves, with `n` crawler
\* objects constructed before it.
fallback_state_unflagged(m, n, fallback) ==
    IF fallback = "ok"
    THEN [crawler |-> [id |-> n + 1, kind |-> "FallbackCrawler"],
          initialized |-> TRUE, using_fallback |-> m.using_fallback]
    ELSE [crawler |-> NoCrawler, initialized |-> FALSE, using_fallback |-> FALSE]

fallback_state(m, n, fallback) ==
    IF fallback = "ok"
    THEN [crawler |-> [id |-> n + 1, kind |-> "FallbackCrawler"],
          initialized |-> TRUE, using_fallback |-> TRUE]
    ELSE [crawler |-> NoCrawler, initialized |-> FALSE, using_fallback |-> FALSE]

\* CrawlerManager.initialize: the manager's state afterwards.
initialize_state(m, n, primary, fallback) ==
    IF IsInitialized(m) THEN m
    ELSE IF primary = "ok"
    THEN [m EXCEPT !.crawler = [id |-> n + 1, kind |-> "AsyncWebCrawler"],
                   !.initialized = TRUE]
    ELSE fallback_state(m, IF primary_constructed(primary) THEN n + 1 ELSE n, fallback)

\* CrawlerManager.initialize: the crawler objects it constructs.
initialize_constructs(m, primary) ==
    IF IsInitialized(m) THEN 0
    ELSE IF primary = "ok" THEN 1
    ELSE IF primary_constructed(primary) THEN 2 ELSE 1

\* CrawlerManager.initialize: whether it raises.
initialize_raises(m, primary, fallback) ==
    ~IsInitialized(m) /\ primary # "ok" /\ fallback # "ok"

\* The __aenter__ calls initialize makes: one on every crawler it constructs.
initialize_enters(m, n, primary, calls) ==
    [i \in CrawlerIds |->
        IF i > n /\ i <= n + initialize_constructs(m, primary)
        THEN calls[i] + 1 ELSE calls[i]]

\* What initialize reached of the primary setup and of the fallback.
reached_primary(m, primary) == IF IsInitialized(m) THEN "" ELSE primary

reached_fallback(m, primary, fallback) ==
    IF IsInitialized(m) \/ primary = "ok" THEN "" ELSE fallback

\* `not self._initialized or self._crawler is None` in get_crawler
needs_initialize(m) == ~m.initialized \/ m.crawler = NoCrawler

\* `self._crawler and self._initialized` in cleanup
cleanup_applies(m) == m.crawler # NoCrawler /\ m.initialized

\* cleanup: the state its finally clause leaves, whatever __aexit__ did.
cleanup_state_unless_raised(m, exit) ==
    IF exit = "raises" THEN m
    ELSE [m EXCEPT !.crawler = NoCrawler, !.initialized = FALSE]

cleanup_state(m, exit) == [m EXCEPT !.crawler = NoCrawler, !.initialized = FALSE]

\* CrawlerManager()
CrawlerManager ==
    /\ cm_calls < MaxCalls
    /\ cm_calls' = cm_calls + 1
    /\ cm_objects' = new_objects(cm_instance, cm_objects)
    /\ cm_instance' = new_instance(cm_instance, cm_objects)
    /\ cm_call' = Call("CrawlerManager", "", "", "",
                        new_instance(cm_instance, cm_objects), FALSE)
    /\ UNCHANGED <<cm, crawlers_created, enter_calls, exit_calls>>
    /\ UNCHANGED notCrawlerVars

\* await manager.initialize()
initialize ==
    /\ cm_calls < MaxCalls
    /\ cm_instance # 0
    /\ \E primary \in PrimaryOutcomes, fallback \in FallbackOutcomes :
          /\ crawlers_created + initialize_constructs(cm, primary) <= MaxCrawlers
          /\ cm' = initialize_state(cm, crawlers_created, primary, fallback)
          /\ crawlers_created' = crawlers_created + initialize_constructs(cm, primary)
          /\ enter_calls' = initialize_enters(cm, crawlers_created, primary, enter_calls)
          /\ cm_call' = Call("initialize", reached_primary(cm, primary),
                              reached_fallback(cm, primary, fallback), "", 0,
                              initialize_raises(cm, primary, fallback))
    /\ cm_calls' = cm_calls + 1
    /\ UNCHANGED <<cm_instance, cm_objects, exit_calls>>
    /\ UNCHANGED notCrawlerVars

\* await manager.get_crawler()
get_crawler ==
    /\ cm_calls < MaxCalls
    /\ cm_instance # 0
    /\ IF needs_initialize(cm)
       THEN \E primary \in PrimaryOutcomes, fallback \in FallbackOutcomes :
               /\ crawlers_created + initialize_constructs(cm, primary) <= MaxCrawlers
               /\ cm' = initialize_state(cm, crawlers_created, primary, fallback)
               /\ crawlers_created' = crawlers_created + initialize_constructs(cm, primary)
               /\ enter_calls' = initialize_enters(cm, crawlers_created, primary, enter_calls)
               /\ cm_call' =
                    Call("get_crawler", reached_primary(cm, primary),
                         reached_fallback(cm, primary, fallback), "",
                         initialize_state(cm, crawlers_created, primary,
                                          fallback).crawler.id,
                         initialize_raises(cm, primary, fallback))
       ELSE /\ cm_call' = Call("get_crawler", "", "", "", cm.crawler.id, FALSE)
            /\ UNCHANGED <<cm, crawlers_created, enter_calls>>
    /\ cm_calls' = cm_calls + 1
    /\ UNCHANGED <<cm_instance, cm_objects, exit_calls>>
    /\ UNCHANGED notCrawlerVars

\* await manager.cleanup()
cleanup ==
    /\ cm_calls < MaxCalls
    /\ cm_instance # 0
    /\ IF cleanup_applies(cm)
       THEN \E exit \in ExitOutcomes :
               /\ exit_calls' = [exit_calls EXCEPT ![cm.crawler.id] = @ + 1]
               /\ cm' = cleanup_state(cm, exit)
               /\ cm_call' = Call("cleanup", "", "", exit, 0, FALSE)
       ELSE /\ cm_call' = Call("cleanup", "", "", "", 0, FALSE)
            /\ UNCHANGED <<cm, exit_calls>>
    /\ cm_calls' = cm_calls + 1
    /\ UNCHANGED <<cm_instance, cm_objects, crawlers_created, enter_calls>>
    /\ UNCHANGED notCrawlerVars

NextCrawler == CrawlerManager \/ initialize \/ get_crawler \/ cleanup

----------------------------------------------------------------------------
(* Properties of CrawlerManager *)

\* A call was made in this step.
CmStep(op) == cm_calls' = cm_calls + 1 /\ cm_call'.op = op

C11_State ==
    /\ cm_objects <= 1
    /\ cm_instance \in {0, 1}
    /\ cm_call.op = "CrawlerManager" => cm_call.result = 1 /\ cm_instance = 1

C11_Step ==
    /\ (CmStep("get_crawler") \/ CmStep("initialize")) =>
          IF cm.initialized /\ cm.crawler # NoCrawler
          THEN /\ cm' = cm
               /\ crawlers_created' = crawlers_created
               /\ enter_calls' = enter_calls
               /\ ~cm_call'.raised
               /\ cm_call'.primary = ""
               /\ CmStep("get_crawler") => cm_call'.result = cm.crawler.id
          ELSE crawlers_created' > crawlers_created
    /\ CmStep("CrawlerManager") =>
          /\ cm_call'.result = cm_instance'
          /\ cm_instance # 0 => cm_instance' = cm_instance /\ cm_objects' = cm_objects

\* C11: CrawlerManager is a lazily initialized singleton: every construction
\* yields the same instance; in a sequential run get_crawler initializes a
\* crawler only when none is initialized, and get_crawler / initialize calls on
\* an initialized manager return the same crawler object without creating or
\* entering another one.
C11_LazySingleton == []C11_State /\ [][C11_Step]_vars

C11_Witness ==
    /\ cm_calls = MaxCalls
    /\ cm_objects = 1
    /\ crawlers_created = 1
    /\ enter_calls[1] = 1
    /\ cm_call.op = "get_crawler"
    /\ cm_call.primary = ""
    /\ cm_call.result = 1

\* C12: if the primary crawler's initialization fails for any reason,
\* initialize enters a FallbackCrawler, which becomes the crawler with
\* _initialized and _using_fallback true, and returns normally; if the fallback
\* fails too, initialize raises and leaves _crawler None, _initialized false
\* and _using_fallback false.
C12_Fallback ==
    (cm_call.op \in {"initialize", "get_crawler"} /\ cm_call.primary \notin {"", "ok"}) =>
        IF cm_call.fallback = "ok"
        THEN /\ ~cm_call.raised
             /\ cm.crawler.kind = "FallbackCrawler"
             /\ cm.crawler.id = crawlers_created
             /\ enter_calls[cm.crawler.id] = 1
             /\ cm.initialized
             /\ cm.using_fallback
        ELSE /\ cm_call.raised
             /\ cm.crawler = NoCrawler
             /\ ~cm.initialized
             /\ ~cm.using_fallback

C12_Witness ==
    /\ cm_call.op = "initialize"
    /\ cm_call.primary = "enter_error"
    /\ cm_call.fallback = "ok"
    /\ cm.crawler = [id |-> 2, kind |-> "FallbackCrawler"]
    /\ cm.using_fallback

C13_Step ==
    /\ CmStep("cleanup") =>
          /\ ~cm_call'.raised
          /\ crawlers_created' = crawlers_created
          /\ enter_calls' = enter_calls
          /\ IF cm.crawler # NoCrawler /\ cm.initialized
             THEN /\ exit_calls' = [exit_calls EXCEPT ![cm.crawler.id] = @ + 1]
                  /\ cm'.crawler = NoCrawler
                  /\ ~cm'.initialized
             ELSE cm' = cm /\ exit_calls' = exit_calls
    /\ (cm_call.op = "cleanup" /\ CmStep("get_crawler")) =>
          /\ crawlers_created' > crawlers_created
          /\ ~cm_call'.raised =>
                /\ cm_call'.result > crawlers_created
                /\ cm_call'.result = cm'.crawler.id
                /\ enter_calls'[cm_call'.result] = 1
                /\ exit_calls'[cm_call'.result] = 0

\* C13: cleanup never raises; on an initialized manager it exits the crawler's
\* context exactly once and leaves _crawler None and _initialized false even
\* if the exit raised; on an uninitialized manager it changes nothing; the next
\* get_crawler after a cleanup creates and enters a fresh crawler.
C13_Cleanup == [][C13_Step]_vars

C13_Witness ==
    /\ cm_call.op = "cleanup"
    /\ cm_call.exit = "raises"
    /\ exit_calls[1] = 1
    /\ cm.crawler = NoCrawler
    /\ ~cm.initialized

----------------------------------------------------------------------------
(* learning_formatter.py: texts *)

\* A Python str is kept as the lengths of its words (runs of \w and "-"),
\* the number of its other characters that are neither of those nor
\* whitespace, and the keywords its lower-cased form contains.  Words are
\* separated by single spaces.
Text(w, punct, kw) == [t |-> "str", w |-> w, punct |-> punct, kw |-> kw]

\* A JSON number where a text is expected (POST /mcp passes params through).
Number == [t |-> "int", w |-> <<>>, punct |-> 0, kw |-> {}]

EmptyText == Text(<<>>, 0, {})

Words(n, len) == [i \in 1..n |-> len]

\* `not s`
IsEmpty(s) == s.t = "str" /\ s.w = <<>> /\ s.punct = 0

\* len(s.split())
WordCount(s) == Len(s.w)

RECURSIVE SumLen(_)
SumLen(w) ==
    IF w = <<>> THEN 0
    ELSE IF Len(w) = 1 THEN w[1]
    ELSE LET half == Len(w) \div 2 IN
         SumLen(SubSeq(w, 1, half)) + SumLen(SubSeq(w, half + 1, Len(w)))

\* len(" ".join(words))
JoinLen(w) == IF w = <<>> THEN 0 ELSE SumLen(w) + Len(w) - 1

\* len(s)
Chars(s) == JoinLen(s.w) + s.punct

\* re.sub(r'[^\w\s-]', '', s)
Clean(s) == Text(s.w, 0, s.kw)

Min(a, b) == IF a < b THEN a ELSE b

----------------------------------------------------------------------------
(* learning_formatter.py: SynopsisGenerator *)

TitleMax == 120
TitleBudget == 117
MinWords == 120
MaxWords == 200
MinBulletWords == 5

Title(kind, w, chars) == [kind |-> kind, w |-> w, chars |-> chars]

\* The loop of _generate_title_from_problem: words are taken while the
\* title, a space and the next word fit the budget.
RECURSIVE fit_words(_, _, _)
fit_words(words, title, budget) ==
    IF words = <<>> THEN title
    ELSE IF JoinLen(title) + 1 + Head(words) <= budget
         THEN fit_words(Tail(words), Append(title, Head(words)), budget)
         ELSE title

\* The loop with the budget of the whole title, the ellipsis forgotten.
title_words_loose(words) == fit_words(words, <<>>, TitleMax)

title_words(words) == fit_words(words, <<>>, TitleBudget)

_generate_title_from_problem(problem_desc) ==
    IF IsEmpty(problem_desc)
    THEN Title("literal", <<9, 7, 8>>, 26)   \* "Debugging Session Learning"
    ELSE LET clean_desc == Clean(problem_desc) IN
         IF Chars(clean_desc) <= TitleMax
         THEN Title("clean", clean_desc.w, Chars(clean_desc))
         ELSE LET title == title_words(clean_desc.w) IN
              Title("truncated", title, JoinLen(title) + 3)

\* len(domain.title()) for the domain _infer_domain_from_entry returns.
DomainLen(domain) ==
    CASE domain = "Python" -> 6
      [] domain = "JavaScript" -> 10
      [] domain = "Database" -> 8
      [] OTHER -> 6

\* str(entry).lower() is searched for the words naming a domain.
_infer_domain_from_entry(entry) ==
    LET kw == UNION {entry[f].kw : f \in
                     {"goal", "action_taken", "actual_result", "root_cause",
                      "solution", "pattern_recognition", "domain_principle"}}
    IN  IF kw \cap {"python", "import"} # {} THEN "Python"
        ELSE IF kw \cap {"javascript", "node"} # {} THEN "JavaScript"
        ELSE IF kw \cap {"sql", "database"} # {} THEN "Database"
        ELSE "System"

_generate_title(entry) ==
    LET goal == entry.goal
        actual_result == entry.actual_result
        chars == IF actual_result.kw \cap {"error", "failed"} # {}
                 THEN DomainLen(_infer_domain_from_entry(entry)) + 8
                      + Min(Chars(actual_result), 60)
                 ELSE 9 + Min(Chars(goal), 70)
    IN  IF chars > TitleMax
        THEN Title("cut", <<>>, TitleBudget + 3)
        ELSE IF actual_result.kw \cap {"error", "failed"} # {}
             THEN Title("error", <<>>, chars)
             ELSE Title("goal", <<>>, chars)

\* The five bullets, in the order the dictionaries are built; a bullet is
\* kept as its number of words.
BulletKeys == <<"symptoms", "context", "root_cause", "fix", "applies_when">>

Bullets(s, c, r, f, a) ==
    [symptoms |-> s, context |-> c, root_cause |-> r, fix |-> f,
     applies_when |-> a]

\* len(" ".join(bullets.values()).split())
TotalWords(bullets) ==
    bullets.symptoms + bullets.context + bullets.root_cause + bullets.fix
    + bullets.applies_when

\* The words _expand_bullets appends to the bullet of a key.
ExpansionWords(key) == IF key = "symptoms" THEN 4 ELSE 3

_expand_bullets(bullets, words_needed) ==
    LET words_per_bullet == words_needed \div Len(BulletKeys) IN
    [key \in DOMAIN bullets |->
        IF words_per_bullet > 0 THEN bullets[key] + ExpansionWords(key)
        ELSE bullets[key]]

\* max(compressed.keys(), key=...): the first key, in dictionary order, of
\* the bullets with the most words.
longest_key(bullets) ==
    LET most == CHOOSE n \in {bullets[k] : k \in DOMAIN bullets} :
                    \A k \in DOMAIN bullets : bullets[k] <= n
        i == CHOOSE i \in 1..Len(BulletKeys) :
                    /\ bullets[BulletKeys[i]] = most
                    /\ \A j \in 1..(i - 1) : bullets[BulletKeys[j]] # most
    IN  BulletKeys[i]

RECURSIVE _compress_bullets(_, _)
_compress_bullets(bullets, words_to_remove) ==
    IF words_to_remove > 0 /\ bullets[longest_key(bullets)] > MinBulletWords
    THEN _compress_bullets(
             [bullets EXCEPT ![longest_key(bullets)] = @ - 1],
             words_to_remove - 1)
    ELSE bullets

_adjust_word_count(bullets) ==
    LET word_count == TotalWords(bullets) IN
    IF word_count < MinWords
    THEN _expand_bullets(bullets, MinWords - word_count)
    ELSE IF word_count > MaxWords
         THEN _compress_bullets(bullets, word_count - MaxWords)
         ELSE bullets

_extract_symptoms(experience) ==
    LET problem_desc == experience.problem_description IN
    IF "error" \in problem_desc.kw THEN 1 + WordCount(problem_desc)
    ELSE IF ~IsEmpty(problem_desc) THEN WordCount(problem_desc)
    ELSE 4      \* "Issue encountered during operation"

_extract_context(experience, session_data) ==
    LET project_context == session_data.project_context
        problem_desc == experience.problem_description
    IN  IF ~IsEmpty(project_context) THEN 3 + WordCount(project_context)
        ELSE IF problem_desc.kw \cap {"python", "import"} # {} THEN 3
        ELSE 2  \* "JavaScript/Node.js environment", "Development environment"

_extract_root_cause_from_experience(experience) ==
    LET solution == experience.solution_applied IN
    IF "directory" \in solution.kw THEN 6
    ELSE IF "install" \in solution.kw THEN 5
    ELSE IF "permission" \in solution.kw THEN 5
    ELSE 6

_extract_fix(experience) ==
    LET solution == experience.solution_applied IN
    IF ~IsEmpty(solution)
    THEN IF "starts with verb" \in solution.kw THEN WordCount(solution)
         ELSE 1 + WordCount(solution)
    ELSE 4      \* "Apply systematic debugging approach"

_extract_applicability(experience) ==
    LET problem_desc == experience.problem_description IN
    IF "not found" \in problem_desc.kw THEN 10
    ELSE 7

_create_default_synopsis ==
    [title |-> Title("literal", <<8, 7, 8>>, 25),
     bullets |-> Bullets(4, 2, 4, 3, 4)]

create_synopsis_from_session_data(session_data) ==
    LET debugging_experiences == session_data.debugging_experiences IN
    IF debugging_experiences = <<>> THEN _create_default_synopsis
    ELSE LET experience == debugging_experiences[1] IN
         [title |->
              _generate_title_from_problem(experience.problem_description),
          bullets |-> _adjust_word_count(
              Bullets(_extract_symptoms(experience),
                      _extract_context(experience, session_data),
                      _extract_root_cause_from_experience(experience),
                      _extract_fix(experience),
                      _extract_applicability(experience)))]

\* The entry fields generate_synopsis and _generate_title read.
EntryTexts(goal, action_taken, actual_result, root_cause, solution, pattern_recognition, domain_principle) ==
    [goal |-> goal, action_taken |-> action_taken,
     actual_result |-> actual_result, root_cause |-> root_cause,
     solution |-> solution, pattern_recognition |-> pattern_recognition,
     domain_principle |-> domain_principle]

_format_context_bullet(entry) ==
    LET while_words == IF ~IsEmpty(entry.action_taken)
                       THEN 1 + WordCount(entry.action_taken) ELSE 0
        goal == entry.goal
    IN  IF goal.kw \cap {"python", "import"} # {} THEN while_words + 4
        ELSE while_words + 3

_format_applicability_bullet(entry) ==
    LET pattern == entry.pattern_recognition
        domain_principle == entry.domain_principle
    IN  IF ~IsEmpty(pattern) /\ "when" \in pattern.kw THEN WordCount(pattern)
        ELSE IF ~IsEmpty(domain_principle)
             THEN 3 + WordCount(domain_principle)
             ELSE 5     \* "When facing similar debugging challenges"

_generate_bullets(entry) ==
    Bullets(WordCount(entry.actual_result),
            _format_context_bullet(entry),
            WordCount(entry.root_cause),
            WordCount(entry.solution),
            _format_applicability_bullet(entry))

generate_synopsis(entry) ==
    [title |-> _generate_title(entry),
     bullets |-> _adjust_word_count(_generate_bullets(entry))]

----------------------------------------------------------------------------
(* learning_formatter.py: create_learning_entries *)

NoTimestamp == "absent"

\* debugging_experiences is a sequence; a missing key reads as the empty one.
SessionData(timestamp, project_context, debugging_experiences) ==
    [timestamp |-> timestamp, project_context |-> project_context,
     debugging_experiences |-> debugging_experiences]

Experience(problem_description, solution_applied) ==
    [problem_description |-> problem_description,
     solution_applied |-> solution_applied]

\* An id that forgets the position.
entry_id_fixed(i) == "L001"

\* f"L{i:03d}"
entry_id(i) ==
    IF i < 10 THEN "L00" \o ToString(i)
    ELSE IF i < 100 THEN "L0" \o ToString(i)
    ELSE "L" \o ToString(i)

_determine_trigger_type(problem_description) ==
    LET problem_lower == problem_description.kw IN
    IF problem_lower \cap {"error", "exception", "failed", "crash", "bug"} # {}
    THEN "error"
    ELSE IF problem_lower \cap {"slow", "performance", "timeout", "lag"} # {}
    THEN "performance"
    ELSE IF problem_lower \cap {"unexpected", "weird", "strange", "odd"} # {}
    THEN "investigation"
    ELSE IF problem_lower
            \cap {"optimization", "improvement", "enhancement"} # {}
    THEN "optimization"
    ELSE "investigation"

NoSynopsis == [title |-> Title("", <<>>, 0), bullets |-> Bullets(0, 0, 0, 0, 0)]

BaseMembers ==
    {"id", "timestamp", "trigger", "situation", "debug_journey", "resolution",
     "knowledge_synthesis", "version"}

\* entry["version"]
entry_version_2(use_v2_format) == 2

entry_version(use_v2_format) == IF use_v2_format THEN 2 ELSE 1

\* The str methods the extractors call are missing on a number.
experience_raises(experience) ==
    \/ experience.problem_description.t # "str"
    \/ experience.solution_applied.t # "str"

\* session_data.get("timestamp", datetime.now().isoformat())
entry_timestamp(session_data) ==
    IF session_data.timestamp = NoTimestamp THEN "now"
    ELSE session_data.timestamp

_create_single_learning_entry(experience, id, timestamp, session_data, use_v2_format) ==
    LET synopsis == create_synopsis_from_session_data(session_data)
        solution == experience.solution_applied
    IN  [id |-> id,
         timestamp |-> timestamp,
         trigger |-> _determine_trigger_type(experience.problem_description),
         solution |-> IF IsEmpty(solution)
                      THEN Text(<<7, 10, 9, 8>>, 0, {}) ELSE solution,
         version |-> entry_version(use_v2_format),
         members |-> IF use_v2_format
                     THEN BaseMembers \cup
                          {"synopsis", "title", "embedding_fields"}
                     ELSE BaseMembers,
         synopsis |-> IF use_v2_format THEN synopsis ELSE NoSynopsis,
         title |-> IF use_v2_format THEN synopsis.title
                   ELSE NoSynopsis.title]

\* What a call gives: the value returned, or the exception raised.
Returned(value) == [raised |-> FALSE, value |-> value]

Raised == [raised |-> TRUE, value |-> <<>>]

create_learning_entries(session_data, use_v2_format) ==
    LET debugging_experiences == session_data.debugging_experiences IN
    IF \E i \in DOMAIN debugging_experiences :
           experience_raises(debugging_experiences[i])
    THEN Raised
    ELSE Returned([i \in DOMAIN debugging_experiences |->
             _create_single_learning_entry(
                 debugging_experiences[i], entry_id(i),
                 entry_timestamp(session_data), session_data,
                 use_v2_format)])

----------------------------------------------------------------------------
(* learning_formatter.py: the calls made *)

MaxTitleWords == 3
MaxExperiences == 3

\* Word lengths around the limits of a title.
TitleWordLens == {1, 58, 116, 117, 118, 121}

TitleTexts ==
    {Text(w, p, {}) :
        w \in UNION {[1..n -> TitleWordLens] : n \in 0..MaxTitleWords},
        p \in {0, 2}}

\* Problem descriptions: none, "Import error", "File not found",
\* "Build is slow.", and long ones.
ProblemTexts ==
    {EmptyText,
     Text(<<6, 5>>, 0, {"import", "error"}),
     Text(<<4, 3, 5>>, 0, {"not found"}),
     Text(<<5, 2, 4>>, 1, {"slow"}),
     Text(<<58, 58, 58>>, 0, {}),
     Text(Words(150, 1), 0, {}),
     Text(Words(210, 1), 0, {"error"})}

\* Solutions: none, "install the package", "Fixed the working directory",
\* and a long one.
SolutionTexts ==
    {EmptyText,
     Text(<<7, 3, 7>>, 0, {"install", "starts with verb"}),
     Text(<<5, 3, 7, 9>>, 0, {"directory"}),
     Text(Words(60, 1), 0, {})}

ProjectContexts == {EmptyText, Text(<<4>>, 0, {}), Text(Words(30, 1), 0, {})}

Timestamps == {NoTimestamp, "2025-01-01T10:00:00"}

\* The experiences of the sessions that are told apart by their solutions.
ExperienceSamples ==
    {Experience(Text(<<6, 5>>, 0, {"import", "error"}),
                Text(<<7, 3, 7>>, 0, {"install", "starts with verb"})),
     Experience(Text(<<4, 3, 5>>, 0, {"not found"}),
                Text(<<5, 3, 7, 9>>, 0, {"directory"})),
     Experience(EmptyText, EmptyText),
     Experience(Number, EmptyText)}

SessionLengths == {10, 100}

ExperienceLists ==
    UNION {[1..n -> ExperienceSamples] : n \in 0..MaxExperiences}
    \cup {[i \in 1..n |-> x] : n \in SessionLengths,
                               x \in {Experience(EmptyText, EmptyText)}}

Sessions ==
    {SessionData(ts, Text(<<4>>, 0, {}), xs) :
        ts \in Timestamps, xs \in ExperienceLists}

SynopsisSessions ==
    {SessionData(NoTimestamp, project, <<Experience(d, sol)>>) :
        project \in ProjectContexts, d \in ProblemTexts,
        sol \in SolutionTexts}
    \cup {SessionData(NoTimestamp, EmptyText, <<>>)}

\* Entries as _create_single_learning_entry words them, and longer ones.
GoalTexts ==
    {Text(<<3, 2, 3, 9, 7, 11, 8>>, 0, {}),
     Text(<<6, 3, 3, 7, 9, 2, 3, 11>>, 0, {"import"}),
     Text(Words(40, 2), 0, {"database"})}

ActualResultTexts ==
    {Text(<<11, 10, 8>>, 0, {}),
     Text(<<6, 5>>, 0, {"import", "error"}),
     Text(Words(210, 1), 0, {"failed"})}

EntrySamples ==
    {EntryTexts(goal, action_taken, actual_result, root_cause, solution,
                pattern_recognition, domain_principle) :
        goal \in GoalTexts,
        action_taken \in {EmptyText, Text(<<9, 10, 9, 7>>, 0, {})},
        actual_result \in ActualResultTexts,
        root_cause \in {Text(<<7, 12, 2, 9, 12>>, 0, {}),
                        Text(Words(20, 1), 0, {})},
        solution \in {Text(<<7, 3, 7>>, 0, {}), Text(Words(60, 1), 0, {})},
        pattern_recognition \in {Text(<<5, 8, 7, 5>>, 0, {}),
                                 Text(<<4, 5, 4>>, 0, {"when"})},
        domain_principle \in {EmptyText, Text(<<6, 6, 6, 8>>, 0, {"python"})}}

NoSession == SessionData(NoTimestamp, EmptyText, <<>>)

NoEntryTexts ==
    EntryTexts(EmptyText, EmptyText, EmptyText, EmptyText, EmptyText,
               EmptyText, EmptyText)

FormatterCall(op, session_data, use_v2_format, entry, problem_desc, result, synopsis) ==
    [op |-> op, session_data |-> session_data,
     use_v2_format |-> use_v2_format, entry |-> entry,
     problem_desc |-> problem_desc, result |-> result, synopsis |-> synopsis]

InitFormatter ==
    formatter = FormatterCall("", NoSession, FALSE, NoEntryTexts, EmptyText,
                              Returned(<<>>), NoSynopsis)

\* The functions keep no state between calls: a behaviour is one call.
NotCalled == formatter.op = ""

call_create_learning_entries ==
    /\ NotCalled
    /\ \E session_data \in Sessions, use_v2_format \in BOOLEAN :
          formatter' = FormatterCall(
              "create_learning_entries", session_data, use_v2_format,
              NoEntryTexts, EmptyText,
              create_learning_entries(session_data, use_v2_format), NoSynopsis)
    /\ UNCHANGED notFormatterVars

call_create_synopsis_from_session_data ==
    /\ NotCalled
    /\ \E session_data \in SynopsisSessions :
          formatter' = FormatterCall(
              "create_synopsis_from_session_data", session_data, TRUE,
              NoEntryTexts, EmptyText, Returned(<<>>),
              create_synopsis_from_session_data(session_data))
    /\ UNCHANGED notFormatterVars

call_generate_synopsis ==
    /\ NotCalled
    /\ \E entry \in EntrySamples :
          formatter' = FormatterCall(
              "generate_synopsis", NoSession, TRUE, entry, EmptyText,
              Returned(<<>>), generate_synopsis(entry))
    /\ UNCHANGED notFormatterVars

call_generate_title_from_problem ==
    /\ NotCalled
    /\ \E problem_desc \in TitleTexts :
          formatter' = FormatterCall(
              "_generate_title_from_problem", NoSession, TRUE, NoEntryTexts,
              problem_desc, Returned(<<>>),
              [title |-> _generate_title_from_problem(problem_desc),
               bullets |-> NoSynopsis.bullets])
    /\ UNCHANGED notFormatterVars

NextFormatter ==
    \/ call_create_learning_entries
    \/ call_create_synopsis_from_session_data
    \/ call_generate_synopsis
    \/ call_generate_title_from_problem

----------------------------------------------------------------------------
(* Properties of learning_formatter.py *)

FiveBullets == {"symptoms", "context", "root_cause", "fix", "applies_when"}

Created ==
    /\ formatter.op = "create_learning_entries"
    /\ ~formatter.result.raised

\* "L" and the three decimal digits of i (i below 1000).
ThreeDigitId(i) ==
    "L" \o ToString(i \div 100) \o ToString((i \div 10) % 10)
        \o ToString(i % 10)

\* C16: create_learning_entries returns one entry per debugging experience,
\* in the order of the experiences; the i-th has the id "L" and i padded with
\* zeros to three digits, so that no two entries share an id; every entry has
\* the timestamp of the session; no experiences give no entries.
C16_OneEntryPerExperience ==
    Created =>
        LET experiences == formatter.session_data.debugging_experiences
            entries == formatter.result.value
        IN  /\ Len(entries) = Len(experiences)
            /\ \A i \in 1..Len(entries) :
                /\ entries[i].id = ThreeDigitId(i)
                /\ entries[i].solution =
                       IF IsEmpty(experiences[i].solution_applied)
                       THEN Text(<<7, 10, 9, 8>>, 0, {})
                       ELSE experiences[i].solution_applied
                /\ entries[i].trigger =
                       _determine_trigger_type(
                           experiences[i].problem_description)
                /\ formatter.session_data.timestamp # NoTimestamp =>
                       entries[i].timestamp = formatter.session_data.timestamp
            /\ \A i, j \in 1..Len(entries) :
                   i # j => entries[i].id # entries[j].id
            /\ experiences = <<>> => entries = <<>>

\* Entries of experiences that differ were returned, and a session of more
\* than nine.
C16_Witness ==
    /\ Created
    /\ \/ /\ Len(formatter.result.value) = 3
          /\ formatter.result.value[1].solution
                 # formatter.result.value[2].solution
          /\ formatter.session_data.timestamp # NoTimestamp
       \/ Len(formatter.result.value) = 100

\* C17: with use_v2_format every entry has version 2, a synopsis that is a
\* title and the five bullets symptoms, context, root_cause, fix and
\* applies_when, and the synopsis' title as its title; without it every entry
\* has version 1 and no synopsis, title or embedding_fields.
C17_EntryShape ==
    Created =>
        \A i \in 1..Len(formatter.result.value) :
            LET entry == formatter.result.value[i] IN
            IF formatter.use_v2_format
            THEN /\ entry.version = 2
                 /\ {"synopsis", "title", "version"} \subseteq entry.members
                 /\ DOMAIN entry.synopsis = {"title", "bullets"}
                 /\ DOMAIN entry.synopsis.bullets = FiveBullets
                 /\ entry.synopsis.title.kind # ""
                 /\ entry.title = entry.synopsis.title
            ELSE /\ entry.version = 1
                 /\ "version" \in entry.members
                 /\ entry.members
                        \cap {"synopsis", "title", "embedding_fields"} = {}

C17_Witness ==
    /\ Created
    /\ formatter.use_v2_format
    /\ Len(formatter.result.value) = 2
    /\ formatter.result.value[2].synopsis.title.kind = "clean"

MadeSynopsis ==
    \/ formatter.op = "generate_synopsis"
    \/ /\ formatter.op = "create_synopsis_from_session_data"
       /\ formatter.session_data.debugging_experiences # <<>>

\* C18: the bullets of every synopsis of generate_synopsis, and of
\* create_synopsis_from_session_data for a session with experiences, have
\* between 120 and 200 words in total.
C18_WordRange ==
    MadeSynopsis =>
        /\ TotalWords(formatter.synopsis.bullets) >= 120
        /\ TotalWords(formatter.synopsis.bullets) <= 200

MadeTitle ==
    formatter.op \in {"generate_synopsis", "create_synopsis_from_session_data",
                      "_generate_title_from_problem"}

\* C19: no title is longer than 120 characters, from an entry or from a
\* problem description of any length; an empty description gives
\* "Debugging Session Learning", and a description that is at most 120
\* characters once cleaned is returned as cleaned.
C19_TitleLength ==
    /\ MadeTitle => formatter.synopsis.title.chars <= 120
    /\ Created =>
           \A i \in 1..Len(formatter.result.value) :
               formatter.result.value[i].title.chars <= 120
    /\ formatter.op = "_generate_title_from_problem" =>
           LET problem_desc == formatter.problem_desc
               title == formatter.synopsis.title
           IN  /\ IsEmpty(problem_desc) =>
                      title = Title("literal", <<9, 7, 8>>, 26)
               /\ (~IsEmpty(problem_desc) /\ JoinLen(problem_desc.w) <= 120) =>
                      /\ title.kind = "clean"
                      /\ title.w = problem_desc.w
                      /\ title.chars = JoinLen(problem_desc.w)
               /\ title.kind = "truncated" =>
                      title.chars = JoinLen(title.w) + 3

\* A description of one word of more than 117 characters was cut down to the
\* ellipsis, or several words were cut to exactly 120 characters.
C19_Witness ==
    /\ formatter.op = "_generate_title_from_problem"
    /\ formatter.synopsis.title.kind = "truncated"
    /\ \/ formatter.problem_desc.w = <<121>>
       \/ formatter.synopsis.title.chars = 120

----------------------------------------------------------------------------
(* learning_capture_module.py: capture_learning, capture_session_learning *)

ExperienceLimit == 5
MinDescription == 10
MaxLines == 3

\* What service_client.store_knowledge does for an entry: it returns a dict
\* with or without a document_id, returns something that is no dict, or
\* raises.
StoreOutcomes == {"document_id", "no_document_id", "not_a_dict", "raises"}

\* The outcomes of the stores of a call: of the odd and of the even entries.
StorePlans == [1..2 -> StoreOutcomes]

store_outcome(stores, i) == stores[((i - 1) % 2) + 1]

\* save_learning_file writes the file, or raises (OSError of mkdir or open).
SaveOutcomes == {"saved", "raises"}

\* ctx.request_context.lifespan_context: None, or the ArchonContext with its
\* service_client.
LifespanContexts == {"None", "ArchonContext"}

Event(call, id) == [call |-> call, entry_id |-> id]

NoDocument == "absent"

\* The record appended to stored_entries for an entry.
store_record(entry, outcome) ==
    IF outcome \in {"document_id", "no_document_id"}
    THEN [entry_id |-> entry.id, status |-> "stored",
          document_id |-> IF outcome = "document_id" THEN "doc" ELSE "None"]
    ELSE [entry_id |-> entry.id, status |-> "failed",
          document_id |-> NoDocument]

\* The loop over learning_entries (the one of capture_session_learning is
\* the same loop); each entry's store is tried, whatever the others did.
store_entries(learning_entries, stores) ==
    [i \in DOMAIN learning_entries |->
        store_record(learning_entries[i], store_outcome(stores, i))]

store_events(learning_entries) ==
    [i \in DOMAIN learning_entries |->
        Event("store_knowledge", learning_entries[i].id)]

\* result["success"] after the stores
result_success(stored_entries) == TRUE

CaptureResult(success, members, archon_storage, experiences_found, entries_created) ==
    [raised |-> FALSE, exc |-> "", success |-> success, members |-> members,
     archon_storage |-> archon_storage,
     experiences_found |-> experiences_found,
     entries_created |-> entries_created]

NoCaptureResult == CaptureResult(FALSE, {}, <<>>, 0, 0)

\* The exception a call ends with, when it ends with one.
CaptureRaised(exc) ==
    [raised |-> TRUE, exc |-> exc, success |-> FALSE, members |-> {},
     archon_storage |-> <<>>, experiences_found |-> 0, entries_created |-> 0]

\* The return of `except Exception`, and of `if not learning_entries`.
capture_failed(members) == CaptureResult(FALSE, members, <<>>, 0, 0)

CaptureDone(events, result) == [events |-> events, result |-> result]

\* Compiling learning_capture_module.py.  Line 142 reads
\* `**additional_context or {}` inside the dict display of `metadata`; after
\* `**` a dict display takes an `or` expression only in parentheses, so the
\* compiler rejects the file with SyntaxError.
module_compiles == FALSE

\* A call of a tool of the module by one who imports it
\* (`from src.mcp.modules.learning_capture_module import ...`): the import
\* raises before register_learning_capture_tools or any tool exists; `done`
\* is what the tool's body does.
tool_call(done) ==
    IF module_compiles THEN done
    ELSE CaptureDone(<<>>, CaptureRaised("SyntaxError"))

\* From create_learning_entries to the result, as both tools do it.
\* `tool` tells whose result members are returned.
capture_entries(tool, session_data, experiences_found, save, lifespan_context, stores) ==
    LET created == create_learning_entries(session_data, TRUE)
        learning_entries == created.value
        create == <<Event("create_learning_entries", "")>>
        saving == <<Event("save_learning_file", "")>>
        failure == IF tool = "capture_learning"
                   THEN {"success", "error", "traceback"}
                   ELSE {"success", "error"}
    IN  IF created.raised
        THEN CaptureDone(create, capture_failed(failure))
        ELSE IF learning_entries = <<>> /\ tool = "capture_learning"
        THEN CaptureDone(create, capture_failed({"success", "error"}))
        ELSE IF learning_entries = <<>> \/ save = "raises"
        THEN CaptureDone(create \o saving, capture_failed(failure))
        ELSE LET available == lifespan_context = "ArchonContext"
                 stored_entries ==
                     IF available THEN store_entries(learning_entries, stores)
                     ELSE <<>>
                 storing ==
                     IF available THEN store_events(learning_entries)
                     ELSE <<>>
             IN  CaptureDone(
                     create \o saving \o storing,
                     CaptureResult(
                         result_success(stored_entries),
                         IF tool = "capture_learning"
                         THEN {"success", "session_id", "entries_created",
                               "markdown_file", "archon_storage", "message"}
                         ELSE {"success", "session_id", "experiences_found",
                               "entries_created", "markdown_file",
                               "archon_storage"},
                         stored_entries,
                         experiences_found,
                         Len(learning_entries)))

\* "Solution applied to resolve the issue"
DefaultSolution == Text(<<8, 7, 2, 7, 3, 5>>, 0, {})

capture_learning_result(problem_description, solution_applied, project_context, save, lifespan_context, stores) ==
    LET debugging_experience ==
            Experience(problem_description,
                       IF IsEmpty(solution_applied) THEN DefaultSolution
                       ELSE solution_applied)
        session_data ==
            SessionData("now", project_context, <<debugging_experience>>)
    IN  capture_entries("capture_learning", session_data, 0, save, lifespan_context,
                        stores)

\* The keywords of error_patterns, in the order of the list.
ErrorKeys == <<"error", "exception", "failed", "issue", "problem">>

KeyLen(key) ==
    CASE key = "error" -> 5
      [] key = "exception" -> 9
      [] key = "failed" -> 6
      [] key = "issue" -> 5
      [] key = "problem" -> 7

\* A line of session_content: one with no keyword followed by ":" or a
\* space, of so many characters once stripped; one of a keyword, ": " and a
\* description of so many characters; one that ends after the keyword and
\* ":".
Plain(n) == [key |-> "", open |-> FALSE, desc |-> 0, len |-> n]

Keyed(key, d) ==
    [key |-> key, open |-> FALSE, desc |-> d, len |-> KeyLen(key) + 2 + d]

Open(key) == [key |-> key, open |-> TRUE, desc |-> 0, len |-> KeyLen(key) + 1]

\* The first line after line i that is not blank, 0 if there is none:
\* [:\s]+ runs over the line end and the blank lines.
next_text(lines, i) ==
    IF \E j \in (i + 1)..Len(lines) : lines[j].len > 0
    THEN CHOOSE j \in (i + 1)..Len(lines) :
             /\ lines[j].len > 0
             /\ \A h \in (i + 1)..(j - 1) : lines[h].len = 0
    ELSE 0

\* re.finditer of the pattern of a key, from line i on: the length of each
\* match's group(1).strip(), in the order of the matches.  A match ends with
\* the line its description is taken from.
RECURSIVE finditer(_, _, _)
finditer(key, lines, i) ==
    IF i > Len(lines) THEN <<>>
    ELSE IF lines[i].key # key THEN finditer(key, lines, i + 1)
    ELSE IF ~lines[i].open
         THEN <<lines[i].desc>> \o finditer(key, lines, i + 1)
         ELSE LET j == next_text(lines, i) IN
              IF j = 0 THEN <<0>>
              ELSE <<lines[j].len>> \o finditer(key, lines, j + 1)

\* `if description and len(description) > 10`
meaningful(descriptions) == SelectSeq(descriptions, LAMBDA d : d > MinDescription)

RECURSIVE all_meaningful(_, _)
all_meaningful(lines, p) ==
    IF p > Len(ErrorKeys) THEN <<>>
    ELSE meaningful(finditer(ErrorKeys[p], lines, 1))
         \o all_meaningful(lines, p + 1)

\* Both loops break once five experiences are there.
limit(descriptions) ==
    SubSeq(descriptions, 1, Min(Len(descriptions), ExperienceLimit))

\* "Applied appropriate fix" stands for the solution found nearby too.
_extract_experiences_from_content(content) ==
    LET descriptions == limit(all_meaningful(content, 1)) IN
    [i \in DOMAIN descriptions |->
        Experience(Text(<<descriptions[i]>>, 0, {}),
                   Text(<<7, 11, 3>>, 0, {}))]

\* f"Session learning from {session_type} session"
DefaultExperience ==
    Experience(Text(<<7, 8, 4, 7, 7>>, 0, {}),
               Text(<<8, 7, 9, 3, 6, 9>>, 0, {}))

capture_session_learning_result(session_content, project_name, save, lifespan_context, stores) ==
    LET extracted == _extract_experiences_from_content(session_content)
        experiences == IF extracted = <<>> THEN <<DefaultExperience>>
                       ELSE extracted
        session_data == SessionData("now", project_name, experiences)
    IN  capture_entries("capture_session_learning", session_data,
                        Len(experiences), save, lifespan_context, stores)

----------------------------------------------------------------------------
(* learning_capture_module.py: the calls made *)

\* The lines contents are made of.
LineSamples ==
    {Plain(0), Plain(20)}
    \cup {Keyed(key, d) : key \in {"error", "problem"}, d \in {10, 11}}
    \cup {Open(key) : key \in {"error", "problem"}}

\* Contents of many lines of two keys in turn, to meet the limit.
LongContents ==
    {[i \in 1..n |-> IF i % 2 = 1 THEN Keyed(k1, 20) ELSE Keyed(k2, 11)] :
        n \in {5, 6, 7}, k1 \in {"error", "issue"}, k2 \in {"error", "failed"}}

SessionContents ==
    UNION {[1..n -> LineSamples] : n \in 0..MaxLines} \cup LongContents

CaptureCall(op, problem_description, solution_applied, session_content, save, lifespan_context, stores, done) ==
    [op |-> op, problem_description |-> problem_description,
     solution_applied |-> solution_applied,
     session_content |-> session_content, save |-> save, context |-> lifespan_context,
     stores |-> stores, events |-> done.events, result |-> done.result]

InitCapture ==
    capture = CaptureCall("", EmptyText, EmptyText, <<>>, "saved", "None",
                          [i \in 1..2 |-> "document_id"],
                          CaptureDone(<<>>, NoCaptureResult))

\* The tools keep no state between calls: a behaviour is one call, with the
\* arguments and the surroundings (the save, the context, the stores) it
\* meets.
NotCaptured == capture.op = ""

capture_learning ==
    /\ NotCaptured
    /\ \E problem_description \in {Text(<<6, 5>>, 0, {"import", "error"}),
                                  EmptyText, Number},
          solution_applied \in {Text(<<7, 3, 7>>, 0, {"install"}),
                                EmptyText, Number},
          save \in SaveOutcomes, lifespan_context \in LifespanContexts,
          stores \in StorePlans :
          capture' = CaptureCall(
              "capture_learning", problem_description, solution_applied,
              <<>>, save, lifespan_context, stores,
              tool_call(capture_learning_result(
                  problem_description, solution_applied, Text(<<4>>, 0, {}),
                  save, lifespan_context, stores)))
    /\ UNCHANGED notCaptureVars

capture_session_learning ==
    /\ NotCaptured
    /\ \E session_content \in SessionContents, save \in SaveOutcomes,
          lifespan_context \in LifespanContexts, stores \in StorePlans :
          capture' = CaptureCall(
              "capture_session_learning", EmptyText, EmptyText,
              session_content, save, lifespan_context, stores,
              tool_call(capture_session_learning_result(
                  session_content, Text(<<4>>, 0, {}), save, lifespan_context,
                  stores)))
    /\ UNCHANGED notCaptureVars

NextCapture ==
    \/ capture_learning
    \/ capture_session_learning

----------------------------------------------------------------------------
(* Properties of the learning capture tools *)

CalledCapture(op) == capture.op = op

\* The file was saved before the first store was tried.
SavedBeforeStores ==
    \A i \in DOMAIN capture.events :
        capture.events[i].call = "store_knowledge" =>
            /\ capture.save = "saved"
            /\ \E j \in 1..(i - 1) :
                   capture.events[j].call = "save_learning_file"

\* archon_storage has one record for each entry, in the order of the entries,
\* "stored" or "failed" each, and the stores after a failed one were made.
OneRecordPerEntry ==
    /\ "archon_storage" \in capture.result.members
    /\ Len(capture.result.archon_storage) = capture.result.entries_created
    /\ \A i \in DOMAIN capture.result.archon_storage :
        LET record == capture.result.archon_storage[i]
            outcome == store_outcome(capture.stores, i)
        IN  /\ record.entry_id = ThreeDigitId(i)
            /\ record.status \in {"stored", "failed"}
            /\ record.status = "failed" <=> outcome \in {"raises", "not_a_dict"}
    /\ SelectSeq(capture.events, LAMBDA e : e.call = "store_knowledge")
           = [i \in DOMAIN capture.result.archon_storage |->
                 Event("store_knowledge", ThreeDigitId(i))]

NoStores ==
    /\ "archon_storage" \in capture.result.members
    /\ capture.result.archon_storage = <<>>
    /\ \A i \in DOMAIN capture.events :
           capture.events[i].call # "store_knowledge"

\* C14: capture_learning never raises and returns an object with a
\* boolean success; the file is saved before any store; with a service client
\* archon_storage has one record per entry, in order, "stored" or "failed",
\* and a store that raises neither stops the others nor makes success false;
\* without a service client the result is success true and an empty
\* archon_storage.
C14_CaptureAlways ==
    CalledCapture("capture_learning") =>
        /\ ~capture.result.raised
        /\ "success" \in capture.result.members
        /\ capture.result.success \in BOOLEAN
        /\ SavedBeforeStores
        /\ capture.context = "ArchonContext" =>
               /\ OneRecordPerEntry
               /\ (\E i \in DOMAIN capture.result.archon_storage :
                       capture.result.archon_storage[i].status = "failed")
                      => capture.result.success
        /\ capture.context = "None" => capture.result.success /\ NoStores

\* The lines whose keyword is followed by a description of more than ten
\* characters (on the line, or on the next line of text when the line ends
\* after the keyword).
PatternLines(content) ==
    {i \in DOMAIN content :
        /\ content[i].key # ""
        /\ IF content[i].open
           THEN /\ next_text(content, i) # 0
                /\ content[next_text(content, i)].len > 10
           ELSE content[i].desc > 10}

ExtractedAsClaimed ==
    IF PatternLines(capture.session_content) # {}
    THEN /\ capture.result.success
         /\ capture.result.experiences_found \in 1..5
         /\ capture.result.entries_created = capture.result.experiences_found
    ELSE /\ capture.result.success
         /\ capture.result.experiences_found = 1

\* C15: for a content with an error-pattern line
\* capture_session_learning returns success true, experiences_found between
\* 1 and 5, and one entry per experience; for a content with none it returns
\* success true and experiences_found 1.
C15_ExtractAlways ==
    CalledCapture("capture_session_learning") => ExtractedAsClaimed

----------------------------------------------------------------------------
(* mcp_server.py: perform_health_checks *)

MaxChecks == 10

\* A member of the dict health_check returns: a JSON boolean, or missing.
ServiceFlags == {"True", "False", "absent"}

\* What `await context.service_client.health_check()` does: it returns a
\* dict, or raises an Exception.
HealthReturn(api_service, agents_service) ==
    [kind |-> "returns", api_service |-> api_service,
     agents_service |-> agents_service]

HealthRaise == [kind |-> "raises", api_service |-> "absent",
                agents_service |-> "absent"]

NoHealthCheck == [kind |-> "", api_service |-> "absent",
                  agents_service |-> "absent"]

HealthOutcomes ==
    {HealthReturn(api, agents) : api \in ServiceFlags, agents \in ServiceFlags}
    \cup {HealthRaise}

\* service_health.get(member, False)
service_flag(flag) == flag = "True"

\* ArchonContext.__post_init__: last_health_check None is time 0.
InitHealth ==
    health = [health_status |->
                  [status |-> "healthy", api_service |-> FALSE,
                   agents_service |-> FALSE, last_health_check |-> 0],
              now |-> 0, last |-> NoHealthCheck, raised |-> FALSE]

\* Ready only if the agents service is up too.
all_services_ready(health_status) ==
    health_status.api_service /\ health_status.agents_service

\* all_critical_ready = context.health_status["api_service"]
all_critical_ready(health_status) == health_status.api_service

health_status_after(health_status, outcome, now) ==
    IF outcome.kind = "raises"
    THEN [health_status EXCEPT !.status = "unhealthy",
                               !.last_health_check = now]
    ELSE LET reported ==
                 [health_status EXCEPT
                      !.api_service = service_flag(outcome.api_service),
                      !.agents_service = service_flag(outcome.agents_service)]
         IN  [reported EXCEPT
                  !.status = IF all_critical_ready(reported) THEN "healthy"
                             ELSE "degraded",
                  !.last_health_check = now]

\* datetime.now() moves on between two checks.
perform_health_checks ==
    /\ health.now < MaxChecks
    /\ \E outcome \in HealthOutcomes :
          health' = [health_status |->
                         health_status_after(health.health_status, outcome,
                                             health.now + 1),
                     now |-> health.now + 1,
                     last |-> outcome,
                     raised |-> FALSE]
    /\ UNCHANGED notHealthVars

NextHealth == perform_health_checks

----------------------------------------------------------------------------
(* Properties of perform_health_checks *)

C20_Step ==
    health' # health =>
        /\ ~health'.raised
        /\ health'.health_status.status = "healthy"
               <=> /\ health'.last.kind = "returns"
                   /\ health'.last.api_service = "True"
        /\ (/\ health'.last.kind = "returns"
            /\ health'.last.api_service \in {"False", "absent"})
               => health'.health_status.status = "degraded"
        /\ health'.last.kind = "raises"
               => health'.health_status.status = "unhealthy"
        /\ health'.health_status.last_health_check = health'.now
        /\ health'.health_status.last_health_check
               > health.health_status.last_health_check

\* C20: perform_health_checks never raises; it sets the status to "healthy"
\* exactly when the service client reports api_service true, to "degraded"
\* when the check returns with api_service false or missing, whatever
\* agents_service is, and to "unhealthy" when the check raises;
\* last_health_check is set anew in all three cases.
C20_HealthStatus == [][C20_Step]_vars

\* A check raised after one that found the api service up: the status is
\* "unhealthy" with api_service still true.
C20_Witness ==
    /\ health.last.kind = "raises"
    /\ health.health_status.status = "unhealthy"
    /\ health.health_status.api_service
    /\ health.health_status.last_health_check = health.now
    /\ health.now > 1

----------------------------------------------------------------------------
(* The specifications *)

----------------------------------------------------------------------------
(* knowledge_storage.py: save_learning_file *)

MaxSaves == 2

MaxInstant == 7

\* The instants datetime.now() tells apart within one second (its
\* microseconds), and the seconds %H%M%S tells apart within one day.
TicksPerSecond == 2

SecondsPerDay == 2

\* datetime.now() at the n-th instant of the clock.
datetime_now(n) ==
    [day |-> (n \div TicksPerSecond) \div SecondsPerDay,
     second |-> (n \div TicksPerSecond) % SecondsPerDay,
     micro |-> n % TicksPerSecond]

\* timestamp.strftime('%Y%m%d-%H%M%S'): the date and the time to the second;
\* the microseconds are not written.
strftime(timestamp) == <<timestamp.day, timestamp.second>>

\* timestamp.isoformat(): the microseconds are written too.
isoformat(timestamp) == <<timestamp.day, timestamp.second, timestamp.micro>>

\* A session_id argument: None, or a str given by the text up to its last '-'
\* (prefix) and the time of day the text after it reads as %H%M%S (last; -1
\* when strptime raises on it).
NoneId == [t |-> "NoneType", prefix |-> "", last |-> -1]

SessionId(prefix, last) == [t |-> "str", prefix |-> prefix, last |-> last]

\* `not session_id`: None or "".
not_session_id(session_id) ==
    \/ session_id.t = "NoneType"
    \/ session_id.prefix = "" /\ session_id.last = -1

\* f"claude-code-{timestamp.strftime('%Y%m%d-%H%M%S')}"
generated_session_id(timestamp) ==
    SessionId("claude-code-" \o ToString(timestamp.day), timestamp.second)

\* `timestamp` after the if/else of save_learning_file: now() for a missing
\* session_id and when strptime raises (the bare except); otherwise the time
\* of day read from the session_id on today's date, without microseconds.
session_timestamp(session_id, now) ==
    IF not_session_id(session_id) \/ session_id.last = -1
    THEN now
    ELSE [day |-> now.day, second |-> session_id.last, micro |-> 0]

\* os.path.basename(os.getcwd()): the process's directory, the same for
\* every call.
project_name == "cwd"

\* knowledge_dir / f"learning-{timestamp.strftime('%Y%m%d-%H%M%S')}.md"
filepath(timestamp) == <<"learning", strftime(timestamp)>>

\* The text of the file: a header of session id, project and start time, then
\* the entries.
_generate_markdown_content(session_id, project, start_time, learning_entries) ==
    [session_id |-> session_id, project_name |-> project,
     start_time |-> start_time, learning_entries |-> learning_entries]

\* What one call writes, and where.
save_learning_file_write(learning_entries, session_id, now) ==
    LET timestamp == session_timestamp(session_id, now)
        sid == IF not_session_id(session_id)
               THEN generated_session_id(now) ELSE session_id
    IN  [path |-> filepath(timestamp),
         content |-> _generate_markdown_content(
                         sid, project_name, isoformat(timestamp), learning_entries)]

\* Lists of learning entries, each entry given by its id and problem.
EntryLists == {<<>>, <<"L001 alpha">>, <<"L001 beta">>}

\* session_id arguments: missing ones, ids as capture_learning makes them
\* (f"external-{project_context}-{%Y%m%d-%H%M%S}") and ids ending in no time.
SessionIds ==
    {NoneId, SessionId("", -1)}
    \cup {SessionId(p, l) :
             p \in {"external-alpha-d", "external-beta-d"},
             l \in {-1} \cup (0..(SecondsPerDay - 1))}

InitStorage ==
    storage = [now |-> 0, files |-> <<>>, saved |-> <<>>, raised |-> ""]

\* save_learning_file(learning_entries, session_id): ValueError for no
\* entries; otherwise open(filepath, 'w') truncates or creates the file and
\* the content is written; the path is returned.
save_learning_file ==
    /\ Len(storage.saved) < MaxSaves
    /\ \E learning_entries \in EntryLists, session_id \in SessionIds :
           IF learning_entries = <<>>
           THEN storage' = [storage EXCEPT !.raised = "ValueError"]
           ELSE LET w == save_learning_file_write(
                             learning_entries, session_id,
                             datetime_now(storage.now))
                IN  storage' =
                        [storage EXCEPT
                            !.files = (w.path :> w.content) @@ storage.files,
                            !.saved = Append(storage.saved, w),
                            !.raised = ""]
    /\ UNCHANGED notStorageVars

\* Time passes between calls.
tick ==
    /\ storage.now < MaxInstant
    /\ storage' = [storage EXCEPT !.now = storage.now + 1]
    /\ UNCHANGED notStorageVars

NextStorage ==
    \/ save_learning_file
    \/ tick

\* C21: no capture overwrites another capture's markdown file: two
\* save_learning_file calls write to different paths, and after any sequence
\* of captures every capture's file still holds that capture's content.
C21_NoOverwrite ==
    /\ \A i, j \in DOMAIN storage.saved :
           i # j => storage.saved[i].path # storage.saved[j].path
    /\ \A i \in DOMAIN storage.saved :
           storage.files[storage.saved[i].path] = storage.saved[i].content

----------------------------------------------------------------------------
(* Specifications *)

Init ==
    /\ InitHttp
    /\ InitLifespan
    /\ InitCrawler
    /\ InitFormatter
    /\ InitCapture
    /\ InitHealth
    /\ InitStorage

Next ==
    \/ register_modules
    \/ mcp_http_endpoint
    \/ mcp_http_info

Spec == Init /\ [][Next]_vars

NextLifespan ==
    \E c \in Connections :
        \/ lifespan_enter(c)
        \/ lifespan_acquire(c)
        \/ lifespan_start(c)
        \/ lifespan_store_context(c)
        \/ lifespan_store_flag(c)
        \/ lifespan_exit(c)

SpecLifespan == Init /\ [][NextLifespan]_vars

SpecCrawler == Init /\ [][NextCrawler]_vars

SpecFormatter == Init /\ [][NextFormatter]_vars

SpecCapture == Init /\ [][NextCapture]_vars

SpecHealth == Init /\ [][NextHealth]_vars

SpecStorage == Init /\ [][NextStorage]_vars

====
